---------------------------- MODULE Spec2Model ----------------------------
(***************************************************************************)
(* Model of the SMTP service of go-gousu-smtp (service.go).                *)
(*                                                                         *)
(* The service owns two unbuffered channels, channelIn (messages) and      *)
(* channelOut (results), and the field `error`.  Start() runs one worker   *)
(* goroutine; SendEmail() composes a message, sends it on channelIn and    *)
(* returns what it receives from channelOut; Stop() closes both channels;  *)
(* Health() returns the field `error`.                                     *)
(*                                                                         *)
(* Go channel semantics used below:                                        *)
(*   - an unbuffered send and its receive are one joint step (rendezvous); *)
(*   - a send on a closed channel panics, also when the sender was already *)
(*     blocked in the send when the channel was closed;                    *)
(*   - a receive from a closed channel yields the zero value at once       *)
(*     (ok = false); the zero value of `error` is nil;                     *)
(*   - an unrecovered panic in any goroutine ends the whole process.       *)
(*                                                                         *)
(* The field `error` is an interface value: two machine words, the type    *)
(* word and the data word.  The worker writes it and Health reads it with  *)
(* no synchronisation, so the words are written and read one at a time     *)
(* and a read may combine words of different writes.                       *)
(***************************************************************************)
EXTENDS Integers, FiniteSets, Sequences, TLC

(* Number of goroutines calling SendEmail, and the number of SendEmail     *)
(* calls they make between them.                                           *)
NumCallers == 2
MaxCalls == 2
(* Longest string tried for an Email field and for the flag smtp_from.     *)
MaxStrLen == 2

Callers == 1..NumCallers

(* Go strings, as sequences of characters; <<>> is the empty string "".    *)
Chars == {"a", "b"}
Strings == UNION {[1..n -> Chars] : n \in 0..MaxStrLen}
(* The fields of Email that SendEmail copies into message headers.         *)
Emails == [From : Strings, To : Strings, Subject : Strings]

Nil == "nil"
(* Errors dialer.Dial() may return, errors mail.Send() may return, and the *)
(* error closer.Close() may return.                                        *)
DialErrors == {"dialErrA", "dialErrB"}
SendErrors == {"sendErr"}
CloseErrors == {"closeErr"}

(* The two words of an `error` interface holding e.  Both dial errors have *)
(* the same dynamic type.                                                  *)
TypeWord(e) == IF e = Nil THEN "nil" ELSE "errType"
DataWord(e) == IF e = Nil THEN "nil" ELSE e
(* The value a pair of words is to the program: nil when the type word is  *)
(* nil, the error when both words belong to it, otherwise a torn value.    *)
Value(tab, data) ==
    IF tab = "nil" THEN Nil
    ELSE IF data = "nil" THEN "torn"
    ELSE data

VARIABLES
    cpc,          \* per caller: position in SendEmail
    calls,        \* number of SendEmail calls started
    ret,          \* per caller: value the current/last SendEmail returned
    chInClosed,   \* close(s.channelIn) has happened
    chOutClosed,  \* close(s.channelOut) has happened
    error,        \* s.error: <<type word, data word>>
    wpc,          \* worker goroutine: position in the loop of Start
    m,            \* worker: message received (identified by its caller), 0 if none
    open,         \* worker: local `open`
    closer,       \* worker: local `closer` (id of the dialed connection, 0 = nil)
    werr,         \* worker: local `err` of line 74 (result of the last Dial)
    wout,         \* worker: value it is about to send on channelOut
    spc,          \* Stop: position
    hpc,          \* Health: position
    hTab,         \* Health: type word it has loaded
    healthRet,    \* Health: value returned ("none" while not returned)
    warned,       \* log holds a "Can't close smtp connection" warning
    \* history variables (not read by the program)
    outcome,      \* per caller: what the worker did with the current message
    stopSeen,     \* per caller: channelIn was closed before or during the call
    stopClean,    \* Stop began while no SendEmail call was in progress
    lastDial,     \* result of the most recent dial attempt (Nil before any)
    prevDial,     \* result of the dial attempt before that one
    lastOp,       \* most recent transport operation of the worker
    nAccepted,    \* messages the worker received from channelIn
    nResponses,   \* values the worker sent on channelOut
    nDials,       \* calls of dialer.Dial()
    nDialOk,      \* ... that succeeded
    nReached,     \* requests handled on an Open or freshly dialed connection
    nSends,       \* calls of mail.Send()
    nSendFail,    \* ... that failed
    nCloses,      \* calls of closer.Close()
    nIdleClose,   \* ... made by the idle-timeout branch
    \* composing a message (SendEmail, lines 138-147)
    email,        \* the argument *m of SendEmail
    smtpFrom,     \* value of the flag smtp_from
    msg           \* header map of the message being composed

vars == <<cpc, calls, ret, chInClosed, chOutClosed, error, wpc, m, open, closer,
          werr, wout, spc, hpc, hTab, healthRet, warned, outcome, stopSeen,
          stopClean, lastDial, prevDial, lastOp, nAccepted, nResponses,
          nDials, nDialOk, nReached, nSends, nSendFail, nCloses, nIdleClose,
          email, smtpFrom, msg>>

callerVars == <<cpc, calls, ret, outcome, stopSeen>>
workerVars == <<wpc, m, open, closer, werr, wout>>
countVars == <<nAccepted, nResponses, nDials, nDialOk, nReached, nSends,
               nSendFail, nCloses, nIdleClose>>
stopVars == <<chInClosed, chOutClosed, spc, stopClean>>
healthVars == <<hpc, hTab, healthRet>>
histVars == <<lastDial, prevDial, lastOp>>
composeVars == <<email, smtpFrom, msg>>

(* mail.NewMessage(): a message with no header set.                        *)
NewMessage == [f \in {"From", "To", "Subject"} |-> <<>>]
(* No message is being composed: the flag has its default "", the Email    *)
(* is the zero Email.                                                      *)
ComposeIdle ==
    /\ email = [From |-> <<>>, To |-> <<>>, Subject |-> <<>>]
    /\ smtpFrom = <<>>
    /\ msg = NewMessage

(* A panic in the worker or in a caller has ended the process.             *)
Crashed == wpc = "panic" \/ \E c \in Callers : cpc[c] = "panic"

(* NewService: fresh channels, error = nil; Start: worker at the top of    *)
(* its loop with open = false, closer = nil.                               *)
ServiceInit ==
    /\ cpc = [c \in Callers |-> "idle"]
    /\ calls = 0
    /\ ret = [c \in Callers |-> "none"]
    /\ chInClosed = FALSE
    /\ chOutClosed = FALSE
    /\ error = <<"nil", "nil">>
    /\ wpc = "select"
    /\ m = 0
    /\ open = FALSE
    /\ closer = 0
    /\ werr = Nil
    /\ wout = Nil
    /\ spc = "idle"
    /\ hpc = "idle"
    /\ hTab = "nil"
    /\ healthRet = "none"
    /\ warned = FALSE
    /\ outcome = [c \in Callers |-> "none"]
    /\ stopSeen = [c \in Callers |-> FALSE]
    /\ stopClean = FALSE
    /\ lastDial = Nil
    /\ prevDial = Nil
    /\ lastOp = "none"
    /\ nAccepted = 0
    /\ nResponses = 0
    /\ nDials = 0
    /\ nDialOk = 0
    /\ nReached = 0
    /\ nSends = 0
    /\ nSendFail = 0
    /\ nCloses = 0
    /\ nIdleClose = 0

(* Start that dials before the worker enters its loop.                     *)
Init_EagerDial ==
    /\ cpc = [c \in Callers |-> "idle"]
    /\ calls = 0
    /\ ret = [c \in Callers |-> "none"]
    /\ chInClosed = FALSE
    /\ chOutClosed = FALSE
    /\ error = <<"nil", "nil">>
    /\ wpc = "select"
    /\ m = 0
    /\ open = TRUE
    /\ closer = 1
    /\ werr = Nil
    /\ wout = Nil
    /\ spc = "idle"
    /\ hpc = "idle"
    /\ hTab = "nil"
    /\ healthRet = "none"
    /\ warned = FALSE
    /\ outcome = [c \in Callers |-> "none"]
    /\ stopSeen = [c \in Callers |-> FALSE]
    /\ stopClean = FALSE
    /\ lastDial = Nil
    /\ prevDial = Nil
    /\ lastOp = "dialOk"
    /\ nAccepted = 0
    /\ nResponses = 0
    /\ nDials = 1
    /\ nDialOk = 1
    /\ nReached = 0
    /\ nSends = 0
    /\ nSendFail = 0
    /\ nCloses = 0
    /\ nIdleClose = 0
    /\ ComposeIdle

(* The service after NewService and Start, no message being composed.      *)
Init ==
    /\ ServiceInit
    /\ ComposeIdle

(* SendEmail, lines 137-168: compose the message; the caller then stands   *)
(* at the send `s.channelIn <- msg`.                                       *)
SendEmailBegin(c) ==
    /\ ~Crashed
    /\ cpc[c] \in {"idle", "returned"}
    /\ calls < MaxCalls
    /\ cpc' = [cpc EXCEPT ![c] = "handoff"]
    /\ calls' = calls + 1
    /\ ret' = [ret EXCEPT ![c] = "none"]
    /\ outcome' = [outcome EXCEPT ![c] = "none"]
    /\ stopSeen' = [stopSeen EXCEPT ![c] = chInClosed]
    /\ UNCHANGED <<error, workerVars, stopVars, healthVars, warned, histVars,
                   countVars>>
    /\ UNCHANGED composeVars

(* WorkerReceive with the test of line 85 dropped: every request dials.    *)
WorkerReceive_AlwaysDial(c) ==
    /\ ~Crashed
    /\ wpc = "select"
    /\ ~chInClosed
    /\ cpc[c] = "handoff"
    /\ cpc' = [cpc EXCEPT ![c] = "recv"]
    /\ m' = c
    /\ wpc' = "dial"
    /\ nAccepted' = nAccepted + 1
    /\ UNCHANGED <<calls, ret, outcome, stopSeen, error, open, closer, werr,
                   wout, stopVars, healthVars, warned, histVars, nResponses,
                   nDials, nDialOk, nReached, nSends, nSendFail, nCloses,
                   nIdleClose>>
    /\ UNCHANGED composeVars

(* Line 170 meets line 81: the worker, waiting in the select, receives     *)
(* caller c's message (ok = true).  Line 85 then chooses dial or send.     *)
WorkerReceive(c) ==
    /\ ~Crashed
    /\ wpc = "select"
    /\ ~chInClosed
    /\ cpc[c] = "handoff"
    /\ cpc' = [cpc EXCEPT ![c] = "recv"]
    /\ m' = c
    /\ wpc' = IF open THEN "send" ELSE "dial"
    /\ nAccepted' = nAccepted + 1
    /\ nReached' = IF open THEN nReached + 1 ELSE nReached
    /\ UNCHANGED <<calls, ret, outcome, stopSeen, error, open, closer, werr,
                   wout, stopVars, healthVars, warned, histVars, nResponses,
                   nDials, nDialOk, nSends, nSendFail, nCloses, nIdleClose>>
    /\ UNCHANGED composeVars

(* Line 170 on a closed channelIn: the send panics.                        *)
CallerSendClosed(c) ==
    /\ ~Crashed
    /\ cpc[c] = "handoff"
    /\ chInClosed
    /\ cpc' = [cpc EXCEPT ![c] = "panic"]
    /\ UNCHANGED <<calls, ret, outcome, stopSeen, error, workerVars, stopVars,
                   healthVars, warned, histVars, countVars>>
    /\ UNCHANGED composeVars

(* WorkerReceiveClosed that closes an Open connection before returning.    *)
WorkerReceiveClosed_Closing ==
    /\ ~Crashed
    /\ wpc = "select"
    /\ chInClosed
    /\ wpc' = "exited"
    /\ open' = FALSE
    /\ nCloses' = IF open THEN nCloses + 1 ELSE nCloses
    /\ UNCHANGED <<callerVars, error, m, closer, werr, wout, stopVars,
                   healthVars, warned, histVars, nAccepted, nResponses, nDials,
                   nDialOk, nReached, nSends, nSendFail, nIdleClose>>
    /\ UNCHANGED composeVars

(* Lines 81-84: the receive from the closed channelIn yields ok = false    *)
(* and the worker returns.                                                 *)
WorkerReceiveClosed ==
    /\ ~Crashed
    /\ wpc = "select"
    /\ chInClosed
    /\ wpc' = "exited"
    /\ UNCHANGED <<callerVars, error, m, open, closer, werr, wout, stopVars,
                   healthVars, warned, histVars, countVars>>
    /\ UNCHANGED composeVars

(* Lines 86-87 and 91-92: dialer.Dial() assigns closer and err.  On        *)
(* failure the worker starts the assignment s.error = err, on success it   *)
(* sets open = true and starts s.error = nil: the type word is written.    *)
WorkerDial ==
    /\ ~Crashed
    /\ wpc = "dial"
    /\ \E r \in {Nil} \cup DialErrors :
          /\ werr' = r
          /\ nDials' = nDials + 1
          /\ prevDial' = lastDial
          /\ lastDial' = r
          /\ error' = <<TypeWord(r), error[2]>>
          /\ IF r = Nil
             THEN /\ closer' = nDialOk + 1
                  /\ nDialOk' = nDialOk + 1
                  /\ nReached' = nReached + 1
                  /\ open' = TRUE
                  /\ lastOp' = "dialOk"
                  /\ UNCHANGED outcome
             ELSE /\ closer' = 0
                  /\ lastOp' = "dialFail"
                  /\ outcome' = [outcome EXCEPT ![m] = r]
                  /\ UNCHANGED <<nDialOk, nReached, open>>
    /\ wpc' = "dialStore"
    /\ UNCHANGED <<cpc, calls, ret, stopSeen, m, wout, stopVars, healthVars,
                   warned, nAccepted, nResponses, nSends, nSendFail, nCloses,
                   nIdleClose>>
    /\ UNCHANGED composeVars

(* WorkerDialStore that dials again for the same message after a failed    *)
(* dial instead of going back to the select.                               *)
WorkerDialStore_Retry ==
    /\ ~Crashed
    /\ wpc = "dialStore"
    /\ error' = <<error[1], DataWord(werr)>>
    /\ wpc' = IF werr = Nil THEN "send" ELSE "dial"
    /\ UNCHANGED <<callerVars, m, open, closer, werr, wout, stopVars,
                   healthVars, warned, histVars, countVars>>
    /\ UNCHANGED composeVars

(* Lines 87-89 and 92: the data word of s.error is written.  After a       *)
(* failed dial the loop continues (nothing is sent on channelOut); after   *)
(* a successful one the worker goes on to line 94.                         *)
WorkerDialStore ==
    /\ ~Crashed
    /\ wpc = "dialStore"
    /\ error' = <<error[1], DataWord(werr)>>
    /\ wpc' = IF werr = Nil THEN "send" ELSE "select"
    /\ UNCHANGED <<callerVars, m, open, closer, werr, wout, stopVars,
                   healthVars, warned, histVars, countVars>>
    /\ UNCHANGED composeVars

(* WorkerSend without line 96: a failed send closes the connection but     *)
(* leaves open = true.                                                     *)
WorkerSend_StaysOpen ==
    /\ ~Crashed
    /\ wpc = "send"
    /\ \E r \in {Nil} \cup SendErrors :
          /\ nSends' = nSends + 1
          /\ wout' = r
          /\ outcome' = [outcome EXCEPT ![m] = IF r = Nil THEN "sent" ELSE r]
          /\ IF r = Nil
             THEN /\ lastOp' = "sendOk"
                  /\ UNCHANGED <<nSendFail, nCloses>>
             ELSE /\ nSendFail' = nSendFail + 1
                  /\ nCloses' = nCloses + 1
                  /\ lastOp' = "sendFail"
    /\ wpc' = "respond"
    /\ UNCHANGED <<cpc, calls, ret, stopSeen, error, m, open, closer, werr,
                   stopVars, healthVars, warned, lastDial, prevDial, nAccepted,
                   nResponses, nDials, nDialOk, nReached, nIdleClose>>
    /\ UNCHANGED composeVars

(* Lines 94-96 and 101: mail.Send(closer, m).  On failure the connection   *)
(* is closed and open = false before the error is offered on channelOut.   *)
WorkerSend ==
    /\ ~Crashed
    /\ wpc = "send"
    /\ \E r \in {Nil} \cup SendErrors :
          /\ nSends' = nSends + 1
          /\ wout' = r
          /\ outcome' = [outcome EXCEPT ![m] = IF r = Nil THEN "sent" ELSE r]
          /\ IF r = Nil
             THEN /\ lastOp' = "sendOk"
                  /\ UNCHANGED <<open, nSendFail, nCloses>>
             ELSE /\ open' = FALSE
                  /\ nSendFail' = nSendFail + 1
                  /\ nCloses' = nCloses + 1
                  /\ lastOp' = "sendFail"
    /\ wpc' = "respond"
    /\ UNCHANGED <<cpc, calls, ret, stopSeen, error, m, closer, werr,
                   stopVars, healthVars, warned, lastDial, prevDial, nAccepted,
                   nResponses, nDials, nDialOk, nReached, nIdleClose>>
    /\ UNCHANGED composeVars

(* Line 97 or 101 meets line 172: the worker's send on channelOut is       *)
(* received by a caller waiting in `<-s.channelOut`; SendEmail returns it. *)
WorkerRespond(c) ==
    /\ ~Crashed
    /\ wpc = "respond"
    /\ ~chOutClosed
    /\ cpc[c] = "recv"
    /\ cpc' = [cpc EXCEPT ![c] = "returned"]
    /\ ret' = [ret EXCEPT ![c] = wout]
    /\ wpc' = "select"
    /\ nResponses' = nResponses + 1
    /\ UNCHANGED <<calls, outcome, stopSeen, error, m, open, closer, werr,
                   wout, stopVars, healthVars, warned, histVars, nAccepted,
                   nDials, nDialOk, nReached, nSends, nSendFail, nCloses,
                   nIdleClose>>
    /\ UNCHANGED composeVars

(* Line 97 or 101 on a closed channelOut: the worker's send panics.        *)
WorkerRespondClosed ==
    /\ ~Crashed
    /\ wpc = "respond"
    /\ chOutClosed
    /\ wpc' = "panic"
    /\ UNCHANGED <<callerVars, error, m, open, closer, werr, wout, stopVars,
                   healthVars, warned, histVars, countVars>>
    /\ UNCHANGED composeVars

(* Line 172 on a closed channelOut: the receive yields the zero value nil  *)
(* and SendEmail returns it.                                               *)
CallerRecvClosed(c) ==
    /\ ~Crashed
    /\ cpc[c] = "recv"
    /\ chOutClosed
    /\ cpc' = [cpc EXCEPT ![c] = "returned"]
    /\ ret' = [ret EXCEPT ![c] = Nil]
    /\ UNCHANGED <<calls, outcome, stopSeen, error, workerVars, stopVars,
                   healthVars, warned, histVars, countVars>>
    /\ UNCHANGED composeVars

(* WorkerTimeout without line 110: the connection is closed but open      *)
(* stays true.                                                             *)
WorkerTimeout_StaysOpen ==
    /\ ~Crashed
    /\ wpc = "select"
    /\ ~chInClosed
    /\ \A c \in Callers : cpc[c] # "handoff"
    /\ open
    /\ \E r \in {Nil} \cup CloseErrors :
          warned' = (warned \/ r # Nil)
    /\ nCloses' = nCloses + 1
    /\ nIdleClose' = nIdleClose + 1
    /\ lastOp' = "idleClose"
    /\ UNCHANGED <<callerVars, error, workerVars, stopVars, healthVars,
                   lastDial, prevDial, nAccepted, nResponses, nDials, nDialOk,
                   nReached, nSends, nSendFail>>
    /\ UNCHANGED composeVars

(* WorkerTimeout without the test of line 106: closer.Close() is called    *)
(* whether or not a connection is open.                                    *)
WorkerTimeout_NoGuard ==
    /\ ~Crashed
    /\ wpc = "select"
    /\ ~chInClosed
    /\ \A c \in Callers : cpc[c] # "handoff"
    /\ \E r \in {Nil} \cup CloseErrors :
          warned' = (warned \/ r # Nil)
    /\ open' = FALSE
    /\ nCloses' = nCloses + 1
    /\ nIdleClose' = nIdleClose + 1
    /\ lastOp' = "idleClose"
    /\ UNCHANGED <<callerVars, error, wpc, m, closer, werr, wout, stopVars,
                   healthVars, lastDial, prevDial, nAccepted, nResponses,
                   nDials, nDialOk, nReached, nSends, nSendFail>>
    /\ UNCHANGED composeVars

(* WorkerTimeout that reports a close error like a send error: it offers   *)
(* the error on channelOut.                                                *)
WorkerTimeout_Surfacing ==
    /\ ~Crashed
    /\ wpc = "select"
    /\ ~chInClosed
    /\ \A c \in Callers : cpc[c] # "handoff"
    /\ IF open
       THEN /\ \E r \in {Nil} \cup CloseErrors :
                 /\ warned' = (warned \/ r # Nil)
                 /\ wout' = IF r # Nil THEN r ELSE wout
                 /\ wpc' = IF r # Nil THEN "respond" ELSE wpc
            /\ open' = FALSE
            /\ nCloses' = nCloses + 1
            /\ nIdleClose' = nIdleClose + 1
            /\ lastOp' = "idleClose"
       ELSE UNCHANGED <<warned, open, nCloses, nIdleClose, lastOp, wout, wpc>>
    /\ UNCHANGED <<callerVars, error, m, closer, werr, stopVars,
                   healthVars, lastDial, prevDial, nAccepted, nResponses,
                   nDials, nDialOk, nReached, nSends, nSendFail>>
    /\ UNCHANGED composeVars

(* Lines 105-111: the timer armed on entering the select fires.  It needs  *)
(* 30 s, whereas a blocked sender or a closed channelIn makes the first    *)
(* case ready at once, so it fires only while channelIn has nothing to     *)
(* deliver.  An Open connection is closed (a close error is only logged).  *)
WorkerTimeout ==
    /\ ~Crashed
    /\ wpc = "select"
    /\ ~chInClosed
    /\ \A c \in Callers : cpc[c] # "handoff"
    /\ IF open
       THEN /\ \E r \in {Nil} \cup CloseErrors :
                 warned' = (warned \/ r # Nil)
            /\ open' = FALSE
            /\ nCloses' = nCloses + 1
            /\ nIdleClose' = nIdleClose + 1
            /\ lastOp' = "idleClose"
       ELSE UNCHANGED <<warned, open, nCloses, nIdleClose, lastOp>>
    /\ UNCHANGED <<callerVars, error, wpc, m, closer, werr, wout, stopVars,
                   healthVars, lastDial, prevDial, nAccepted, nResponses,
                   nDials, nDialOk, nReached, nSends, nSendFail>>
    /\ UNCHANGED composeVars

(* Stop, line 121: close(s.channelIn).                                     *)
StopCloseIn ==
    /\ ~Crashed
    /\ spc = "idle"
    /\ chInClosed' = TRUE
    /\ spc' = "closedIn"
    /\ stopClean' = (\A c \in Callers : cpc[c] \in {"idle", "returned"})
    /\ stopSeen' = [c \in Callers |->
                      stopSeen[c] \/ cpc[c] \in {"handoff", "recv"}]
    /\ UNCHANGED <<cpc, calls, ret, outcome, chOutClosed, error, workerVars,
                   healthVars, warned, histVars, countVars>>
    /\ UNCHANGED composeVars

(* Stop, line 122: close(s.channelOut).                                    *)
StopCloseOut ==
    /\ ~Crashed
    /\ spc = "closedIn"
    /\ chOutClosed' = TRUE
    /\ spc' = "done"
    /\ UNCHANGED <<callerVars, chInClosed, stopClean, error, workerVars,
                   healthVars, warned, histVars, countVars>>
    /\ UNCHANGED composeVars

(* Health, line 129: compare s.error with nil (its type word); a nil is    *)
(* returned at line 133.                                                   *)
HealthCheck ==
    /\ ~Crashed
    /\ hpc = "idle"
    /\ IF error[1] = "nil"
       THEN /\ healthRet' = Nil
            /\ hpc' = "returned"
       ELSE /\ hpc' = "loadTab"
            /\ UNCHANGED healthRet
    /\ UNCHANGED <<callerVars, error, workerVars, stopVars, hTab, warned,
                   histVars, countVars>>
    /\ UNCHANGED composeVars

(* Health, line 130: load the type word of s.error.                        *)
HealthLoadTab ==
    /\ ~Crashed
    /\ hpc = "loadTab"
    /\ hTab' = error[1]
    /\ hpc' = "loadData"
    /\ UNCHANGED <<callerVars, error, workerVars, stopVars, healthRet, warned,
                   histVars, countVars>>
    /\ UNCHANGED composeVars

(* Health, line 130: load the data word of s.error and return the pair.    *)
HealthLoadData ==
    /\ ~Crashed
    /\ hpc = "loadData"
    /\ healthRet' = Value(hTab, error[2])
    /\ hTab' = "nil"
    /\ hpc' = "returned"
    /\ UNCHANGED <<callerVars, error, workerVars, stopVars, warned, histVars,
                   countVars>>
    /\ UNCHANGED composeVars

(* The caller of Health has used the result; Health may be called again.   *)
HealthDone ==
    /\ ~Crashed
    /\ hpc = "returned"
    /\ healthRet' = "none"
    /\ hpc' = "idle"
    /\ UNCHANGED <<callerVars, error, workerVars, stopVars, hTab, warned,
                   histVars, countVars>>
    /\ UNCHANGED composeVars

Next ==
    \/ \E c \in Callers : SendEmailBegin(c)
    \/ \E c \in Callers : WorkerReceive(c)
    \/ \E c \in Callers : CallerSendClosed(c)
    \/ WorkerReceiveClosed
    \/ WorkerDial
    \/ WorkerDialStore
    \/ WorkerSend
    \/ \E c \in Callers : WorkerRespond(c)
    \/ WorkerRespondClosed
    \/ \E c \in Callers : CallerRecvClosed(c)
    \/ WorkerTimeout
    \/ StopCloseIn
    \/ StopCloseOut
    \/ HealthCheck
    \/ HealthLoadTab
    \/ HealthLoadData
    \/ HealthDone

Spec == Init /\ [][Next]_vars

(* The worker goroutine is runnable whenever one of its steps is enabled,  *)
(* and the Go scheduler runs every runnable goroutine.                     *)
WorkerNext ==
    \/ \E c \in Callers : WorkerReceive(c)
    \/ WorkerReceiveClosed
    \/ WorkerDial
    \/ WorkerDialStore
    \/ WorkerSend
    \/ \E c \in Callers : WorkerRespond(c)
    \/ WorkerRespondClosed

FairSpec == Spec /\ WF_vars(WorkerNext)

(***************************************************************************)
(* Composing the message: SendEmail, lines 138-147.                        *)
(***************************************************************************)

(* msg.SetHeader(field, value): the header `field` holds the one value.    *)
SetHeader(message, field, value) == [message EXCEPT ![field] = <<value>>]

(* The sender with the test of line 141 inverted.                          *)
from_Inverted(mail, dflt) == IF mail.From # <<>> THEN dflt ELSE mail.From

(* Lines 140-143: from := m.From; if from == "" { from = *smtpFrom }.      *)
from(mail, dflt) == IF mail.From = <<>> THEN dflt ELSE mail.From

(* msg.GetHeader("From"): the values of the header From.                   *)
Sender(message) == message["From"]

(* A caller is about to call SendEmail(m) with any Email m, under any      *)
(* value of the flag smtp_from; the service is as NewService and Start     *)
(* left it.                                                                *)
InitCompose ==
    /\ ServiceInit
    /\ email \in Emails
    /\ smtpFrom \in Strings
    /\ msg = NewMessage

(* Lines 138-147: a new message gets the headers From, To and Subject.     *)
(* (The bodies and attachments of lines 149-168 set no header.)            *)
Compose ==
    /\ msg = NewMessage
    /\ msg' = SetHeader(SetHeader(SetHeader(NewMessage,
                  "From", from(email, smtpFrom)),
                  "To", email.To),
                  "Subject", email.Subject)
    /\ UNCHANGED <<email, smtpFrom>>
    /\ UNCHANGED <<callerVars, workerVars, stopVars, healthVars, histVars,
                   countVars, error, warned>>

NextCompose == Compose

SpecCompose == InitCompose /\ [][NextCompose]_vars

-----------------------------------------------------------------------------
(* Properties                                                              *)

(* The worker is handling caller c's message.                              *)
Handling(c) == m = c /\ wpc \in {"dial", "dialStore", "send", "respond"}

(* Calls that have handed their message to the worker and not returned.    *)
InFlight == {c \in Callers : cpc[c] = "recv"}

(* C1: when the dial made for a request fails, the SendEmail call that     *)
(* issued the request returns that dial error (it is not left blocked),    *)
(* and the connection is Closed after the failed dial.                     *)
C1_DialErrorReturned ==
    /\ \A c \in Callers :
          (outcome[c] \in DialErrors /\ ~Handling(c))
             => (cpc[c] = "returned" /\ ret[c] = outcome[c])
    /\ (lastOp = "dialFail" => ~open)

(* C2: with Stop never called, once the worker is back waiting for the     *)
(* next request every request it accepted has been answered (one response  *)
(* per call, so every call returns), and the number of mail.Send calls     *)
(* equals the number of requests handled on an Open or freshly dialed      *)
(* connection.                                                             *)
C2_OneResponsePerCall ==
    (spc = "idle" /\ wpc = "select")
       => /\ nResponses = nAccepted
          /\ InFlight = {}
          /\ nSends = nReached

(* C3: with Stop never called, a SendEmail call returns nil only if the    *)
(* send of its own message succeeded, and an error e only if the dial or   *)
(* the send made for its own message failed with e.                        *)
C3_ReturnIsOwnOutcome ==
    \A c \in Callers :
       (spc = "idle" /\ cpc[c] = "returned")
          => /\ (ret[c] = Nil => outcome[c] = "sent")
             /\ (ret[c] # Nil => outcome[c] = ret[c])

(* C4: at most one message is in flight (handed to the worker, its         *)
(* SendEmail call not yet returned).                                       *)
C4_AtMostOneInFlight == Cardinality(InFlight) <= 1

(* Results of a dial attempt that count as the most recent one: the last  *)
(* Dial to return and, while the worker is still writing its result into   *)
(* s.error, the one before it.                                             *)
RecentDial ==
    {lastDial} \cup (IF wpc = "dialStore" THEN {prevDial} ELSE {})

(* C5: every value Health returns is the result of the most recent dial    *)
(* attempt (nil before any dial and after a successful one, the dial error *)
(* otherwise); outside the worker's dial step s.error holds that result,   *)
(* only the dial step changes it, and a send, a send failure and a close   *)
(* leave it unchanged.                                                     *)
C5_HealthIsLastDial ==
    /\ [][(hpc # "returned" /\ hpc' = "returned")
             => healthRet' \in RecentDial]_vars
    /\ [](wpc # "dialStore"
             => error = <<TypeWord(lastDial), DataWord(lastDial)>>)
    /\ [][error' # error => wpc \in {"dial", "dialStore"}]_vars
    /\ [][(nSends' # nSends \/ nCloses' # nCloses) => error' = error]_vars

(* C6: when the worker offers a send error on channelOut it has already    *)
(* closed the connection and is Closed, and the request it accepts next    *)
(* dials: no send attempt directly follows a failed send.                  *)
C6_RedialAfterSendFailure ==
    /\ []((wpc = "respond" /\ wout # Nil)
             => (~open /\ nCloses = nDialOk /\ lastOp = "sendFail"))
    /\ [](wpc = "send" => lastOp # "sendFail")
    /\ [][(lastOp = "sendFail" /\ nAccepted' = nAccepted + 1)
             => wpc' = "dial"]_vars

(* C6 witness: after a send failure the next request has re-dialed and is  *)
(* about to be sent.                                                       *)
C6_Witness ==
    /\ nSendFail >= 1
    /\ wpc = "send"
    /\ lastOp = "dialOk"
    /\ nDialOk = 2

(* C7: as long as no send has failed and the idle timer has closed no      *)
(* connection, the connection of the first successful dial stays Open and  *)
(* is the only one dialed, and no dial attempt follows it.                 *)
C7_ReuseWithoutRedial ==
    (nSendFail = 0 /\ nIdleClose = 0 /\ nDialOk >= 1)
       => /\ open
          /\ nDialOk = 1
          /\ closer = 1
          /\ lastDial = Nil
          /\ nCloses = 0
          /\ (nDials = nDialOk => nDials = 1)

(* C7 witness: two messages sent successfully over one dial.               *)
C7_Witness ==
    /\ nSends >= 2
    /\ nSendFail = 0
    /\ nIdleClose = 0
    /\ nDials = 1
    /\ wpc = "select"
    /\ nResponses = nSends

(* C8: when the idle timer closes an Open connection the state becomes     *)
(* Closed and no SendEmail call is blocked waiting for a response.         *)
C8_IdleCloseNoCallerBlocked ==
    [][nIdleClose' = nIdleClose + 1 => (~open' /\ InFlight = {})]_vars

(* C9: a SendEmail call that Stop overtook (channelIn was closed before    *)
(* the call or while it was in progress) never returns a result for a      *)
(* message that was not delivered.                                         *)
C9_NoReturnAfterStop ==
    \A c \in Callers :
       (stopSeen[c] /\ cpc[c] = "returned") => outcome[c] = "sent"

C11_LazyDial ==
    /\ [](nAccepted = 0 => (nDials = 0 /\ ~open /\ closer = 0))
    /\ [](nDials <= nAccepted)
    /\ [][nDials' # nDials
             => (/\ nDials' = nDials + 1
                 /\ wpc = "dial"
                 /\ m \in Callers
                 /\ ~open
                 /\ nAccepted' = nAccepted
                 /\ nIdleClose' = nIdleClose)]_vars
    /\ [][(wpc = "select" /\ wpc' = "dial") => nAccepted' = nAccepted + 1]_vars

(* C11 witness: the first dial has been made, for the first request.       *)
C11_Witness ==
    /\ nDials = 1
    /\ nAccepted = 1
    /\ wpc = "dialStore"
    /\ cpc[m] = "recv"

(* C12: mail.Send is attempted only on an Open connection that the worker  *)
(* holds unclosed; a request received while Closed (after an idle close,   *)
(* in particular) dials first and is sent only if that dial succeeded.     *)
C12_SendOnlyWhenOpen ==
    /\ [](wpc = "send"
             => (open /\ closer = nDialOk /\ nDialOk = nCloses + 1
                 /\ lastOp \in {"dialOk", "sendOk"}))
    /\ [][nSends' # nSends => (wpc = "send" /\ open)]_vars
    /\ [][(nAccepted' = nAccepted + 1 /\ (~open \/ lastOp = "idleClose"))
             => wpc' = "dial"]_vars
    /\ [][(wpc = "dialStore" /\ wpc' # "dialStore")
             => (wpc' = "send" <=> lastDial = Nil)]_vars

(* C12 witness: a message was sent, the idle timer closed the connection,  *)
(* and the next request has dialed afresh and is about to be sent.         *)
C12_Witness ==
    /\ nSends = 1
    /\ nSendFail = 0
    /\ nIdleClose = 1
    /\ nDialOk = 2
    /\ lastOp = "dialOk"
    /\ wpc = "send"

(* C16: the number of successful dials minus the number of closes is 0 or  *)
(* 1, and 1 exactly when open: a dial is made only while Closed, and a     *)
(* close is made only on the Open connection, the one dialed last.         *)
C16_OneConnection ==
    /\ [](nDialOk - nCloses \in {0, 1})
    /\ [](open <=> nDialOk - nCloses = 1)
    /\ [](open => closer = nDialOk)
    /\ [][nDialOk' # nDialOk => (~open /\ open' /\ nDialOk' = nDialOk + 1)]_vars
    /\ [][nCloses' # nCloses
             => (/\ nCloses' = nCloses + 1
                 /\ open /\ ~open'
                 /\ closer = nDialOk
                 /\ nCloses < nDialOk)]_vars

(* C16 witness: a second connection is open after the first was closed.    *)
C16_Witness ==
    /\ open
    /\ nDialOk = 2
    /\ nCloses = 1

(* C15: the idle-timeout close, whether closer.Close() succeeds or fails,  *)
(* leaves the state Closed, sends nothing on channelOut, leaves s.error    *)
(* and every caller as they were, and its error is never offered on        *)
(* channelOut nor returned by SendEmail or Health; while Closed the timer  *)
(* branch changes nothing.                                                 *)
C15_IdleCloseSilent ==
    /\ [][nIdleClose' # nIdleClose
             => (/\ open /\ ~open'
                 /\ wpc' = "select"
                 /\ nResponses' = nResponses
                 /\ UNCHANGED <<error, wout, cpc, ret, healthRet>>)]_vars
    /\ [](wout \notin CloseErrors)
    /\ [](\A c \in Callers : ret[c] \notin CloseErrors)
    /\ [](healthRet \notin CloseErrors /\ error[2] \notin CloseErrors)
    /\ [][(~open /\ wpc = "select" /\ wpc' = "select")
             => UNCHANGED <<open, closer, error, wout, warned, lastOp,
                            nCloses, nIdleClose, nResponses>>]_vars

(* C15 witness: an idle close failed (it was logged), and a SendEmail call *)
(* made afterwards has returned.                                           *)
C15_Witness ==
    /\ warned
    /\ nIdleClose = 1
    /\ nResponses = 2
    /\ \E c \in Callers : cpc[c] = "returned" /\ ret[c] = Nil

(* C14: each request causes at most one dial attempt and at most one send  *)
(* attempt: the worker dials or sends only for a message it has not yet    *)
(* acted on, enters the dial or the send only by receiving a message (or   *)
(* the send from that message's successful dial), and a message whose dial *)
(* or send failed keeps that outcome until its caller starts a new call.   *)
C14_NoRetry ==
    /\ [](nDials <= nAccepted /\ nSends <= nAccepted)
    /\ [][nDials' # nDials
             => (/\ nDials' = nDials + 1
                 /\ wpc = "dial" /\ wpc' = "dialStore"
                 /\ outcome[m] = "none")]_vars
    /\ [][nSends' # nSends
             => (/\ nSends' = nSends + 1
                 /\ wpc = "send" /\ wpc' = "respond"
                 /\ outcome[m] = "none")]_vars
    /\ [][(wpc # "dial" /\ wpc' = "dial")
             => (wpc = "select" /\ nAccepted' = nAccepted + 1)]_vars
    /\ [][(wpc # "send" /\ wpc' = "send")
             => \/ wpc = "select" /\ nAccepted' = nAccepted + 1
                \/ wpc = "dialStore" /\ werr = Nil /\ m' = m]_vars
    /\ [][m' # m => nAccepted' = nAccepted + 1]_vars
    /\ [][\A c \in Callers :
             outcome[c] \in DialErrors \cup SendErrors
                => \/ outcome'[c] = outcome[c]
                   \/ cpc[c] = "returned" /\ cpc'[c] = "handoff"]_vars

(* C14 witness: one message's dial failed, a later message's send failed,  *)
(* and the worker is back in its select having made two dials and one send.*)
C14_Witness ==
    /\ \E c \in Callers : outcome[c] \in DialErrors
    /\ \E c \in Callers : outcome[c] \in SendErrors
    /\ nAccepted = 2 /\ nDials = 2 /\ nSends = 1
    /\ wpc = "select"

(* C13: for every Email m, the sender of the message SendEmail composes    *)
(* is m.From when m.From is non-empty and the value of smtp_from when      *)
(* m.From is empty.                                                        *)
C13_SenderOrDefault ==
    msg # NewMessage
        => /\ email.From # <<>> => Sender(msg) = <<email.From>>
           /\ email.From = <<>> => Sender(msg) = <<smtpFrom>>

(* C13 witness: a message composed from an Email without From, under a     *)
(* non-empty smtp_from that differs from the recipient, carries smtp_from. *)
C13_Witness ==
    /\ msg # NewMessage
    /\ email.From = <<>>
    /\ smtpFrom # <<>>
    /\ smtpFrom # email.To
    /\ Sender(msg) = <<smtpFrom>>

=============================================================================
